---- MODULE Spec2Model ----
(***************************************************************************)
(* Model of the finto HTTP handlers (handlers.go).                         *)
(*                                                                         *)
(* fintoContext holds the immutable RoleSet and the plain, unguarded       *)
(* string field instanceRole.  net/http serves every request on its own    *)
(* goroutine, so the handlers below run concurrently on one fintoContext.  *)
(* A Go string is a two-word header (data pointer, length); an unguarded   *)
(* assignment or read of it is two word-sized accesses in an order the     *)
(* build chooses, so the model performs each access to fc.instanceRole as  *)
(* two steps and lets other goroutines run in between.  Everything a       *)
(* handler does between two shared accesses is local and is done in the    *)
(* same step.                                                              *)
(***************************************************************************)
EXTENDS Integers, Sequences, FiniteSets, TLC

\* ------------------------------------------------------------------ bounds

\* Number of goroutines serving requests concurrently.
NumHandlers == 2
\* Number of requests accepted over the life of the server.
MaxRequests == 3

Handlers == 1..NumHandlers

\* ------------------------------------------------------------- Go strings

\* Byte strings are sequences of one-character strings.
dev     == <<"d", "e", "v">>
prod    == <<"p", "r", "o", "d">>
missing == <<"m", "i", "s", "s", "i", "n", "g">>
empty   == <<>>

\* A string header: ptr identifies the backing bytes, len the length.
StringHeader(b) == [ptr |-> b, len |-> Len(b)]

\* The bytes a header denotes.  A header whose words come from two different
\* writes denotes a prefix of the backing bytes, or runs past their end into
\* memory whose content is not determined ("?").
GoString(s) == [i \in 1..s.len |-> IF i <= Len(s.ptr) THEN s.ptr[i] ELSE "?"]

Words == {"ptr", "len"}
OtherWord(word) == IF word = "ptr" THEN "len" ELSE "ptr"

\* One word-sized store into, and load from, a string header.
StoreWord(dst, src, word) ==
    IF word = "ptr" THEN [dst EXCEPT !.ptr = src.ptr] ELSE [dst EXCEPT !.len = src.len]
LoadWord(reg, mem, word) == StoreWord(reg, mem, word)

\* ---------------------------------------------------------------- RoleSet

\* fc.set: the RoleSet of the running service, in configuration order.
Roles == <<dev, prod>>
RoleAliases == {Roles[i] : i \in 1..Len(Roles)}

\* A lookup that finds a Role for the zero alias as well.
RoleErrEmptyKnown(alias) == alias \notin RoleAliases \cup {<<>>}

\* fc.set.Role(alias) returns an error iff the alias is not configured.
RoleErr(alias) == alias \notin RoleAliases

\* Aliases that request paths and bodies name; the configured default alias;
\* aliases that show-role requests name.
ReqAliases == RoleAliases \cup {missing}
DefaultAliases == {dev, missing}
ShowAliases == {dev, missing}

\* ------------------------------------------------- http.ResponseWriter

StatusOK == 200
StatusBadRequest == 400
StatusNotFound == 404
StatusInternalServerError == 500

\* hdr: the handler's header map; sent: the headers committed with the
\* status line; body: the chunks written.
\* headerCalls counts the times the status was written.
NoResponse ==
    [hdr |-> {}, wroteHeader |-> FALSE, status |-> 0, sent |-> {}, body |-> <<>>,
     headerCalls |-> 0]

HasHeader(hs, k) == \E p \in hs : p[1] = k

\* w.WriteHeader(code): commits the status and the header map as it is now.
\* A second call is ignored.
WriteHeader(w, code) ==
    IF w.wroteHeader THEN [w EXCEPT !.headerCalls = @ + 1]
    ELSE [w EXCEPT !.wroteHeader = TRUE, !.status = code, !.sent = w.hdr,
                   !.headerCalls = @ + 1]

\* w.Header().Set(k, v): changes the handler's map only.
HeaderSet(w, k, v) ==
    [w EXCEPT !.hdr = {p \in @ : p[1] # k} \cup {<<k, v>>}]

\* w.Write(b): commits 200 first if nothing was committed; a response
\* committed without a Content-Type gets the sniffed one.
Write(w, b) ==
    LET w1 == IF w.wroteHeader THEN w ELSE WriteHeader(w, StatusOK)
        w2 == IF HasHeader(w1.sent, "Content-Type") THEN w1
              ELSE [w1 EXCEPT !.sent = @ \cup {<<"Content-Type", "text/plain; charset=utf-8">>}]
    IN  [w2 EXCEPT !.body = Append(@, b)]

\* jsonResponse, lines 143-147; Encode writes the encoded body with w.Write.
jsonResponse(w, body) ==
    LET w1 == HeaderSet(w, "Content-Type", "application/json; charset=UTF-8")
        w2 == HeaderSet(w1, "Server", "EC2ws")
    IN  Write(w2, [json |-> body])

\* errorResponse without line 150: the status is never set.
errorResponseNoStatus(w, message, code) ==
    jsonResponse(w, [error |-> message])

\* errorResponse, lines 149-152: the status is committed first, the headers
\* are set on the map afterwards.
errorResponse(w, message, code) ==
    jsonResponse(WriteHeader(w, code), [error |-> message])

\* ------------------------------------------------------------------ state

VARIABLES
    started,        \* "new", "serving", or "failed" (InitFintoContext erred)
    defrole,        \* the defrole argument InitFintoContext was called with
    instanceRole,   \* fc.instanceRole, a string header
    pc,             \* per goroutine: where its handler is
    req,            \* per goroutine: the request it serves
    pend,           \* per goroutine: word of fc.instanceRole still to access
    reg,            \* per goroutine: the words of fc.instanceRole loaded so far
    out,            \* the response most recently returned to a client
    served,         \* requests accepted so far
    lin,            \* history: the latest completed assignment of line 29
    ordered,        \* history, per read: the completed Set it is ordered after
    cache,          \* per Role: the fetch whose credentials it caches, 0 for none
    fetches         \* history, per Role: external assume-role calls started

vars == <<started, defrole, instanceRole, pc, req, pend, reg, out, served, lin, ordered,
          cache, fetches>>

\* calls counts the request's calls of role.Credentials(); fetch is the
\* number of the external assume-role call the request started, 0 for none.
NoRequest ==
    [path |-> "none", alias |-> empty, status |-> "", parsed |-> TRUE, err |-> FALSE,
     calls |-> 0, fetch |-> 0]

Init ==
    /\ started = "new"
    /\ defrole = empty
    /\ instanceRole = StringHeader(empty)
    /\ pc = [h \in Handlers |-> "idle"]
    /\ req = [h \in Handlers |-> NoRequest]
    /\ pend = [h \in Handlers |-> "-"]
    /\ reg = [h \in Handlers |-> StringHeader(empty)]
    /\ out = [req |-> NoRequest, w |-> NoResponse, ordered |-> "no", expect |-> empty]
    /\ served = 0
    /\ lin = [alias |-> empty, by |-> 0, acked |-> FALSE]
    /\ ordered = [h \in Handlers |-> "no"]
    /\ cache = [alias \in RoleAliases |-> 0]
    /\ fetches = [alias \in RoleAliases |-> 0]

\* ------------------------------------------------------------ construction

\* setInstanceRole without lines 25-27: every alias reaches the assignment.
setInstanceRoleUnchecked(role) == TRUE

\* setInstanceRole, lines 25-27: the assignment is reached only for an alias
\* the RoleSet knows.
setInstanceRoleOk(role) == ~RoleErr(role)

\* InitFintoContext runs before the server accepts requests, on one
\* goroutine, so its setInstanceRole is one step.
InitFintoContext(role) ==
    /\ started = "new"
    /\ defrole' = role
    /\ IF setInstanceRoleOk(role)
       THEN /\ instanceRole' = StringHeader(role)
            /\ started' = "serving"
            /\ lin' = [alias |-> role, by |-> 0, acked |-> TRUE]
       ELSE /\ started' = "failed"
            /\ UNCHANGED <<instanceRole, lin>>
    /\ UNCHANGED <<pc, req, pend, reg, out, served, ordered, cache, fetches>>

\* --------------------------------------------------------------- requests

\* A goroutine takes the next request once its previous handler returned.
Accept(h) ==
    /\ started = "serving"
    /\ pc[h] = "idle"
    /\ served < MaxRequests
    /\ served' = served + 1

\* The handler of h, serving request rq, returns having written response r.
Return(h, rq, r) ==
    /\ out' = [req |-> rq, w |-> r, ordered |-> ordered[h],
               expect |-> IF ordered[h] = "no" THEN empty ELSE lin.alias]
    /\ pc' = [pc EXCEPT ![h] = "idle"]
    /\ req' = [req EXCEPT ![h] = NoRequest]
    /\ pend' = [pend EXCEPT ![h] = "-"]
    /\ reg' = [reg EXCEPT ![h] = StringHeader(empty)]
    /\ ordered' = [ordered EXCEPT ![h] = "no"]

\* The handler of h takes request rq, loads a first word of fc.instanceRole
\* and goes to pc at.
LoadFirst(h, rq, word, at) ==
    /\ req' = [req EXCEPT ![h] = rq]
    /\ reg' = [reg EXCEPT ![h] = LoadWord(StringHeader(empty), instanceRole, word)]
    /\ pend' = [pend EXCEPT ![h] = OtherWord(word)]
    /\ pc' = [pc EXCEPT ![h] = at]

\* The string the handler of h holds once it has loaded the remaining word.
Loaded(h) == GoString(LoadWord(reg[h], instanceRole, pend[h]))

\* A read of the active role begins: it is ordered after the Set that lin
\* names if that Set has returned (and stays so until line 29 completes in
\* another request, see setInstanceRoleCommit).
ReadBegins(h) ==
    ordered' = [ordered EXCEPT ![h] =
        IF ~lin.acked THEN "no" ELSE IF lin.by = 0 THEN "init" ELSE "activation"]

\* rolesList, lines 46-47, status=active: first word of fc.instanceRole.
rolesListActive(h, word) ==
    /\ Accept(h)
    /\ LoadFirst(h, [NoRequest EXCEPT !.path = "list", !.status = "active"], word, "list_load")
    /\ ReadBegins(h)
    /\ UNCHANGED <<started, defrole, cache, fetches, instanceRole, out, lin>>

\* rolesList, lines 47 and 52: second word, then the singleton list.
rolesListActiveRespond(h) ==
    /\ pc[h] = "list_load"
    /\ Return(h, req[h], jsonResponse(NoResponse, [roles |-> <<Loaded(h)>>]))
    /\ UNCHANGED <<started, defrole, cache, fetches, instanceRole, served, lin>>

\* rolesList, lines 49 and 52: any other status value lists fc.set.Roles().
rolesListAll(h) ==
    /\ Accept(h)
    /\ Return(h, [NoRequest EXCEPT !.path = "list"],
              jsonResponse(NoResponse, [roles |-> Roles]))
    /\ UNCHANGED <<started, defrole, cache, fetches, instanceRole, lin>>

\* role.Arn() and role.SessionName() of the Role configured under alias.
Arn(alias) == <<"arn", alias>>
SessionName(alias) == <<"session", alias>>

\* rolesShow, lines 59-68.
rolesShow(h, alias) ==
    /\ Accept(h)
    /\ Return(h, [NoRequest EXCEPT !.path = "show", !.alias = alias],
              IF RoleErr(alias)
              THEN errorResponse(NoResponse, "unknown role", StatusNotFound)
              ELSE jsonResponse(NoResponse,
                       [arn |-> Arn(alias), session_name |-> SessionName(alias)]))
    /\ UNCHANGED <<started, defrole, cache, fetches, instanceRole, lin>>

\* rolesSetActive without the return of line 85: after the 400 the handler
\* goes on to setInstanceRole with the zero alias, which fails validation.
rolesSetActiveBadBodyFallsThrough(h) ==
    /\ Accept(h)
    /\ Return(h, [NoRequest EXCEPT !.path = "activate", !.parsed = FALSE],
              errorResponse(errorResponse(NoResponse, "failed to parse body", StatusBadRequest),
                            "unknown role", StatusBadRequest))
    /\ UNCHANGED <<started, defrole, cache, fetches, instanceRole, lin>>

\* rolesSetActive, lines 81-86: the body does not decode.
rolesSetActiveBadBody(h) ==
    /\ Accept(h)
    /\ Return(h, [NoRequest EXCEPT !.path = "activate", !.parsed = FALSE],
              errorResponse(NoResponse, "failed to parse body", StatusBadRequest))
    /\ UNCHANGED <<started, defrole, cache, fetches, instanceRole, lin>>

\* rolesSetActive, lines 81-91, with setInstanceRole, lines 25-29: the body
\* decodes to alias; an alias that fails validation is answered 400, any
\* other has the first word of its header stored into fc.instanceRole.
rolesSetActive(h, alias, word) ==
    LET rq == [NoRequest EXCEPT !.path = "activate", !.alias = alias]
    IN  /\ Accept(h)
        /\ IF setInstanceRoleOk(alias)
           THEN /\ instanceRole' = StoreWord(instanceRole, StringHeader(alias), word)
                /\ req' = [req EXCEPT ![h] = rq]
                /\ pend' = [pend EXCEPT ![h] = OtherWord(word)]
                /\ pc' = [pc EXCEPT ![h] = "set_store"]
                /\ UNCHANGED <<reg, out, ordered>>
           ELSE /\ Return(h, rq, errorResponse(NoResponse, "unknown role", StatusBadRequest))
                /\ UNCHANGED instanceRole
        /\ UNCHANGED <<started, defrole, cache, fetches, lin>>

\* setInstanceRole made to wait while any goroutine is inside
\* role.Credentials(), as under a lock held across the assume-role call.
setInstanceRoleCommitLocked(h) ==
    /\ pc[h] = "set_store"
    /\ \A g \in Handlers : pc[g] # "creds_call"
    /\ instanceRole' = StoreWord(instanceRole, StringHeader(req[h].alias), pend[h])
    /\ pc' = [pc EXCEPT ![h] = "set_read"]
    /\ pend' = [pend EXCEPT ![h] = "-"]
    /\ lin' = [alias |-> req[h].alias, by |-> h, acked |-> FALSE]
    /\ ordered' = [g \in Handlers |-> "no"]
    /\ UNCHANGED <<started, defrole, cache, fetches, req, reg, out, served>>

\* setInstanceRole, lines 29-30: the second word; the assignment is complete
\* and setInstanceRole returns nil.
setInstanceRoleCommit(h) ==
    /\ pc[h] = "set_store"
    /\ instanceRole' = StoreWord(instanceRole, StringHeader(req[h].alias), pend[h])
    /\ pc' = [pc EXCEPT ![h] = "set_read"]
    /\ pend' = [pend EXCEPT ![h] = "-"]
    /\ lin' = [alias |-> req[h].alias, by |-> h, acked |-> FALSE]
    /\ ordered' = [g \in Handlers |-> "no"]
    /\ UNCHANGED <<started, defrole, cache, fetches, req, reg, out, served>>

\* rolesSetActive, line 93: first word of fc.instanceRole, read again.
rolesSetActiveRead(h, word) ==
    /\ pc[h] = "set_read"
    /\ LoadFirst(h, req[h], word, "set_load")
    /\ UNCHANGED <<started, defrole, cache, fetches, instanceRole, out, served, lin, ordered>>

\* rolesSetActive, line 93: second word, then the response.
rolesSetActiveRespond(h) ==
    /\ pc[h] = "set_load"
    /\ Return(h, req[h], jsonResponse(NoResponse, [active_role |-> Loaded(h)]))
    /\ lin' = IF lin.by = h THEN [lin EXCEPT !.acked = TRUE] ELSE lin
    /\ UNCHANGED <<started, defrole, cache, fetches, instanceRole, served>>

\* mockProfile, line 100: first word of fc.instanceRole.
mockProfile(h, word) ==
    /\ Accept(h)
    /\ LoadFirst(h, [NoRequest EXCEPT !.path = "profile"], word, "profile_load")
    /\ ReadBegins(h)
    /\ UNCHANGED <<started, defrole, cache, fetches, instanceRole, out, lin>>

\* mockProfile, line 100: second word, then the plain body.
mockProfileRespond(h) ==
    /\ pc[h] = "profile_load"
    /\ Return(h, req[h], Write(NoResponse, [text |-> Loaded(h)]))
    /\ UNCHANGED <<started, defrole, cache, fetches, instanceRole, served, lin>>

\* mockProfileCreds made to activate the alias of its path as well.
mockProfileCredsActivates(h, alias) ==
    LET rq == [NoRequest EXCEPT !.path = "creds", !.alias = alias]
    IN  /\ Accept(h)
        /\ IF RoleErr(alias)
           THEN /\ Return(h, rq, errorResponse(NoResponse, "unknown role", StatusNotFound))
                /\ UNCHANGED instanceRole
           ELSE /\ pc' = [pc EXCEPT ![h] = "creds_call"]
                /\ req' = [req EXCEPT ![h] = [rq EXCEPT !.calls = 1]]
                /\ instanceRole' = StringHeader(alias)
                /\ UNCHANGED <<pend, reg, out, ordered>>
        /\ UNCHANGED <<started, defrole, cache, fetches, lin>>

\* mockProfileCreds, lines 107-113: an unknown alias is answered 404; for a
\* known one the goroutine enters role.Credentials().
mockProfileCreds(h, alias) ==
    LET rq == [NoRequest EXCEPT !.path = "creds", !.alias = alias]
    IN  /\ Accept(h)
        /\ IF RoleErr(alias)
           THEN Return(h, rq, errorResponse(NoResponse, "unknown role", StatusNotFound))
           ELSE /\ pc' = [pc EXCEPT ![h] = "creds_call"]
                /\ req' = [req EXCEPT ![h] = [rq EXCEPT !.calls = 1]]
                /\ UNCHANGED <<pend, reg, out, ordered>>
        /\ UNCHANGED <<started, defrole, cache, fetches, instanceRole, lin>>

\* The credentials role.Credentials() returns for the Role of alias.
Credentials(alias) ==
    [AccessKeyId |-> <<"key", alias>>, SecretAccessKey |-> <<"secret", alias>>,
     SessionToken |-> <<"token", alias>>, Expiration |-> <<"expiration", alias>>]

\* json.MarshalIndent of a map[string]string returns no error.
MarshalIndentErr(doc) == FALSE

\* mockProfileCreds, lines 123-131: the credentials document.
CredsDocument(creds) ==
    [Code |-> "Success", LastUpdated |-> "2015-07-07T23:06:33Z", Type |-> "AWS-HMAC",
     AccessKeyId |-> creds.AccessKeyId, SecretAccessKey |-> creds.SecretAccessKey,
     Token |-> creds.SessionToken, Expiration |-> creds.Expiration]

\* mockProfileCreds with the Role of the active alias in place of the Role
\* line 107 looked up for the path.
mockProfileCredsReturnActive(h, err) ==
    /\ pc[h] = "creds_call"
    /\ Return(h, [req[h] EXCEPT !.err = err],
          IF err
          THEN errorResponse(NoResponse, "failed to assume role", StatusInternalServerError)
          ELSE Write(NoResponse, [json |-> CredsDocument(Credentials(GoString(instanceRole)))]))
    /\ UNCHANGED <<started, defrole, cache, fetches, instanceRole, served, lin>>

\* mockProfileCreds without the return of line 117: after the 500 the
\* handler goes on to render and write the document of the zero credentials.
mockProfileCredsReturnFallsThrough(h, err) ==
    /\ pc[h] = "creds_call"
    /\ Return(h, [req[h] EXCEPT !.err = err],
          IF err
          THEN Write(errorResponse(NoResponse, "failed to assume role",
                                   StatusInternalServerError),
                     [json |-> CredsDocument([AccessKeyId |-> empty, SecretAccessKey |-> empty,
                                              SessionToken |-> empty, Expiration |-> empty])])
          ELSE Write(NoResponse, [json |-> CredsDocument(Credentials(req[h].alias))]))
    /\ UNCHANGED <<started, defrole, cache, fetches, instanceRole, served, lin>>

\* mockProfileCreds, lines 113-139: role.Credentials() returns, with an
\* error or with credentials.
mockProfileCredsReturn(h, err) ==
    /\ pc[h] = "creds_call"
    /\ Return(h, [req[h] EXCEPT !.err = err],
          IF err
          THEN errorResponse(NoResponse, "failed to assume role", StatusInternalServerError)
          ELSE LET doc == CredsDocument(Credentials(req[h].alias))
               IN  IF MarshalIndentErr(doc)
                   THEN errorResponse(NoResponse, "failed to render", StatusInternalServerError)
                   ELSE Write(NoResponse, [json |-> doc]))
    /\ UNCHANGED <<started, defrole, cache, fetches, instanceRole, served, lin>>

\* ------------------------------------------------------- Role.Credentials
\* Role is defined in role.go. Its Credentials() is modelled from its
\* contract: unexpired cached credentials are returned without a fetch;
\* otherwise an external assume-role call is made, whose success replaces the
\* cache and whose failure leaves it alone. Concurrent callers that find no
\* cached credentials fetch independently. Spec above keeps Credentials() a
\* call that returns credentials or an error; SpecCreds below looks inside.

\* The credentials the n-th external assume-role call for alias returned.
FetchedCredentials(alias, n) ==
    [AccessKeyId |-> <<"key", alias, n>>, SecretAccessKey |-> <<"secret", alias, n>>,
     SessionToken |-> <<"token", alias, n>>, Expiration |-> <<"expiration", alias, n>>]

\* A Role that never finds its cached credentials usable.
CachedNever(alias) == FALSE

\* The Role of alias holds cached credentials that have not expired.
Cached(alias) == cache[alias] # 0

\* mockProfileCreds, lines 107-139, with Credentials() looking at the cache:
\* an unknown alias is answered 404; cached credentials are rendered at
\* once; otherwise the goroutine starts an external assume-role call.
mockProfileCredsCached(h, alias) ==
    LET rq == [NoRequest EXCEPT !.path = "creds", !.alias = alias]
    IN  /\ Accept(h)
        /\ IF RoleErr(alias)
           THEN /\ Return(h, rq, errorResponse(NoResponse, "unknown role", StatusNotFound))
                /\ UNCHANGED <<cache, fetches>>
           ELSE IF Cached(alias)
           THEN /\ Return(h, [rq EXCEPT !.calls = 1],
                       Write(NoResponse,
                             [json |-> CredsDocument(FetchedCredentials(alias, cache[alias]))]))
                /\ UNCHANGED <<cache, fetches>>
           ELSE /\ pc' = [pc EXCEPT ![h] = "creds_call"]
                /\ req' = [req EXCEPT ![h] =
                              [rq EXCEPT !.calls = 1, !.fetch = fetches[alias] + 1]]
                /\ fetches' = [fetches EXCEPT ![alias] = @ + 1]
                /\ UNCHANGED <<pend, reg, out, ordered, cache>>
        /\ UNCHANGED <<started, defrole, instanceRole, lin>>

\* The external assume-role call of h returns: an error is answered 500 and
\* leaves the cache alone; credentials replace the cache and are rendered.
assumeRoleReturn(h, err) ==
    /\ pc[h] = "creds_call"
    /\ IF err
       THEN /\ Return(h, [req[h] EXCEPT !.err = TRUE],
                   errorResponse(NoResponse, "failed to assume role",
                                 StatusInternalServerError))
            /\ UNCHANGED cache
       ELSE /\ Return(h, req[h],
                   Write(NoResponse,
                         [json |-> CredsDocument(FetchedCredentials(req[h].alias,
                                                                    req[h].fetch))]))
            /\ cache' = [cache EXCEPT ![req[h].alias] = req[h].fetch]
    /\ UNCHANGED <<started, defrole, instanceRole, served, lin, fetches>>

\* Time passes the expiration of the credentials the Role of alias caches.
Expire(alias) ==
    /\ Cached(alias)
    /\ cache' = [cache EXCEPT ![alias] = 0]
    /\ UNCHANGED <<started, defrole, instanceRole, pc, req, pend, reg, out, served, lin,
                   ordered, fetches>>

\* ---------------------------------------------------------- specification

Next ==
    \/ \E role \in DefaultAliases : InitFintoContext(role)
    \/ \E h \in Handlers :
         \/ \E word \in Words : rolesListActive(h, word)
         \/ rolesListActiveRespond(h)
         \/ rolesListAll(h)
         \/ \E alias \in ShowAliases : rolesShow(h, alias)
         \/ rolesSetActiveBadBody(h)
         \/ \E alias \in ReqAliases \cup {empty}, word \in Words : rolesSetActive(h, alias, word)
         \/ setInstanceRoleCommit(h)
         \/ \E word \in Words : rolesSetActiveRead(h, word)
         \/ rolesSetActiveRespond(h)
         \/ \E word \in Words : mockProfile(h, word)
         \/ mockProfileRespond(h)
         \/ \E alias \in ReqAliases : mockProfileCreds(h, alias)
         \/ \E err \in BOOLEAN : mockProfileCredsReturn(h, err)

Spec == Init /\ [][Next]_vars

\* The credentials endpoint alone, with the cache of each Role.
NextCreds ==
    \/ \E role \in DefaultAliases : InitFintoContext(role)
    \/ \E h \in Handlers :
         \/ \E alias \in ReqAliases : mockProfileCredsCached(h, alias)
         \/ \E err \in BOOLEAN : assumeRoleReturn(h, err)
    \/ \E alias \in RoleAliases : Expire(alias)

SpecCreds == Init /\ [][NextCreds]_vars

\* ----------------------------------------------------------------- claims

\* What the most recently returned response is a response to.
Responded == out.req.path # "none"
IsActiveRead ==
    \/ out.req.path = "profile"
    \/ out.req.path = "list" /\ out.req.status = "active"
IsActivation == out.req.path = "activate"

\* The alias an active-role read returned to its client.
ReadValue ==
    IF out.req.path = "profile" THEN out.w.body[1].text ELSE out.w.body[1].json.roles[1]

JSONHeaders ==
    {<<"Content-Type", "application/json; charset=UTF-8">>, <<"Server", "EC2ws">>}

\* C1: once InitFintoContext has returned without error, fc.instanceRole is
\* in every reachable state an alias for which RoleSet.Role succeeds.
C1_InstanceRoleIsKnownAlias ==
    started = "serving" => ~RoleErr(GoString(instanceRole))

\* C2: a read of the active role that starts after an activation of x has
\* returned successfully, with no other activation completing its assignment
\* since x's, returns x.
C2_ReadAfterActivation ==
    (IsActiveRead /\ out.ordered = "activation") => ReadValue = out.expect

\* C3: an activation request whose alias the RoleSet does not know is
\* answered 400 in a step that leaves fc.instanceRole, and with it what
\* every other request handler has read or will read, unchanged.
C3_FailedActivationHasNoEffect ==
    [][\A h \in Handlers, alias \in ReqAliases \cup {empty}, word \in Words :
          (RoleErr(alias) /\ rolesSetActive(h, alias, word)) =>
              /\ out'.w.status = StatusBadRequest
              /\ "error" \in DOMAIN out'.w.body[1].json
              /\ UNCHANGED <<instanceRole, lin, ordered>>
              /\ \A g \in Handlers \ {h} :
                    UNCHANGED <<pc[g], req[g], pend[g], reg[g]>>]_vars

\* C3 witness: an unknown alias was refused after an activation had
\* succeeded, and the alias of that activation is still the active one.
C3_Witness ==
    /\ IsActivation /\ out.req.parsed /\ RoleErr(out.req.alias)
    /\ out.w.status = StatusBadRequest
    /\ lin.by \in Handlers /\ lin.acked
    /\ GoString(instanceRole) = lin.alias

\* C4: a read of the active role returns a complete alias, the one active
\* before a concurrent write or the one being written, never a mixture.
C4_ReadIsWholeAlias ==
    IsActiveRead => ReadValue \in RoleAliases

\* C5: no two request handlers are inside an access to fc.instanceRole at
\* the same time with at least one of them writing it.
Writing(h) == pc[h] = "set_store"
Reading(h) == pc[h] \in {"list_load", "profile_load", "set_load"}
C5_NoConcurrentAccess ==
    \A h, g \in Handlers :
        (h # g /\ Writing(h)) => ~(Writing(g) \/ Reading(g))

\* C6: a successful activation request with body alias a responds with
\* active_role equal to a.
C6_ActivationEchoesOwnAlias ==
    (IsActivation /\ out.w.status = StatusOK) =>
        out.w.body[1].json.active_role = out.req.alias

\* C7: every error response is committed with its non-200 status and with
\* the Content-Type and Server headers of jsonResponse.
C7_ErrorResponseHeaders ==
    (Responded /\ out.w.status # StatusOK) => JSONHeaders \subseteq out.w.sent

\* C8: every successful response whose body is JSON is committed with the
\* Content-Type and Server headers of jsonResponse.
C8_SuccessJSONHeaders ==
    (Responded /\ out.w.status = StatusOK /\ "json" \in DOMAIN out.w.body[1]) =>
        JSONHeaders \subseteq out.w.sent

\* The status the error kinds of a request call for.
ExpectedStatus(rq) ==
    CASE rq.path \in {"show", "creds"} /\ RoleErr(rq.alias) -> StatusNotFound
      [] rq.path = "activate" /\ ~rq.parsed -> StatusBadRequest
      [] rq.path = "activate" /\ rq.parsed /\ RoleErr(rq.alias) -> StatusBadRequest
      [] rq.path = "creds" /\ ~RoleErr(rq.alias) /\ rq.err -> StatusInternalServerError
      [] OTHER -> StatusOK

\* C9: the status of a response is 404 for an unknown alias on show role and
\* credentials, 400 for an unknown alias or an unparsable body on
\* activation, 500 for a failed Credentials() call, and 200 otherwise; each
\* response is written once, as one body.
C9_StatusByErrorKind ==
    Responded => /\ out.w.status = ExpectedStatus(out.req)
                 /\ Len(out.w.body) = 1
                 /\ out.w.status # StatusOK <=>
                        /\ "json" \in DOMAIN out.w.body[1]
                        /\ "error" \in DOMAIN out.w.body[1].json

\* C9 witness: a credentials request whose Credentials() call failed was
\* answered 500.
C9_Witness ==
    /\ out.req.path = "creds" /\ out.req.err
    /\ out.w.status = StatusInternalServerError

\* C10: a list request with status=active returns exactly one element, the
\* active alias (after a completed Set of a, exactly <<a>>); without the
\* flag it returns all aliases of the RoleSet.
C10_ListRoles ==
    out.req.path = "list" =>
        LET roles == out.w.body[1].json.roles
        IN  IF out.req.status = "active"
            THEN /\ Len(roles) = 1
                 /\ roles[1] \in RoleAliases
                 /\ out.ordered # "no" => roles[1] = out.expect
            ELSE roles = Roles

\* C11: a credentials request answers for the alias of its path whatever the
\* active role is: Credentials() is called on the Role of that alias only,
\* its credentials are the document returned, and an alias the RoleSet does
\* not know is answered 404.
C11_CredsByPathAlias ==
    /\ \A h \in Handlers : pc[h] = "creds_call" => ~RoleErr(req[h].alias)
    /\ out.req.path = "creds" =>
          IF RoleErr(out.req.alias)
          THEN out.w.status = StatusNotFound
          ELSE ~out.req.err =>
                  /\ out.w.status = StatusOK
                  /\ out.w.body[1].json = CredsDocument(Credentials(out.req.alias))

\* C11 witness: the credentials of dev were returned while dev is not the
\* active role and an activation is half way through its assignment.
C11_Witness ==
    /\ out.req.path = "creds" /\ out.req.alias = dev /\ out.w.status = StatusOK
    /\ out.w.body[1].json = CredsDocument(Credentials(dev))
    /\ GoString(instanceRole) # dev
    /\ \E h \in Handlers : pc[h] = "set_store"

\* C12: InitFintoContext(rs, defrole) returns an error exactly when defrole
\* is no alias of rs; without error the initial active role is defrole, and
\* the active-role-name endpoint returns defrole as long as no activation
\* has completed its assignment.
C12_InitAndDefault ==
    /\ started = "failed" <=> (started # "new" /\ RoleErr(defrole))
    /\ (started = "serving" /\ served = 0) => GoString(instanceRole) = defrole
    /\ (out.req.path = "profile" /\ out.ordered = "init") => ReadValue = defrole

\* C13: once the service runs, fc.instanceRole changes only in a step of an
\* activation request whose alias passed validation; every step of a list,
\* show role, active-role-name or credentials request, whatever its status,
\* and of an activation request with an unparsable body, leaves it as it was.
C13_OnlyActivationChangesRole ==
    [][(started = "serving" /\ instanceRole' # instanceRole) =>
          \E h \in Handlers :
              /\ pc'[h] \in {"set_store", "set_read"}
              /\ pc'[h] # pc[h]
              /\ req'[h].path = "activate" /\ req'[h].parsed
              /\ ~RoleErr(req'[h].alias)]_vars

\* C13 witness: after a 500 from the credentials endpoint the active role
\* is still the one the last activation set, and requests are still served.
C13_Witness ==
    /\ out.req.path = "creds" /\ out.w.status = StatusInternalServerError
    /\ lin.by \in Handlers /\ lin.alias = prod
    /\ instanceRole = StringHeader(prod)
    /\ \A h \in Handlers : pc[h] = "idle"
    /\ served < MaxRequests

\* C14: no access to the active role waits for role.Credentials(): whatever
\* the other goroutines are doing, suspended in the assume-role call
\* included, an activation or active-role-name request can be taken and each
\* of its steps up to the response can be taken next.
C14_RoleAccessNeverBlocks ==
    \A h \in Handlers :
        /\ (pc[h] = "idle" /\ started = "serving" /\ served < MaxRequests) =>
              /\ ENABLED (\E word \in Words : mockProfile(h, word))
              /\ ENABLED (\E alias \in RoleAliases, word \in Words :
                              rolesSetActive(h, alias, word))
        /\ pc[h] = "profile_load" => ENABLED mockProfileRespond(h)
        /\ pc[h] = "set_store" => ENABLED setInstanceRoleCommit(h)
        /\ pc[h] = "set_read" => ENABLED (\E word \in Words : rolesSetActiveRead(h, word))
        /\ pc[h] = "set_load" => ENABLED rolesSetActiveRespond(h)

\* C14 witness: an activation is between the two stores of line 29 while
\* every other goroutine is suspended in role.Credentials().
C14_Witness ==
    \E h \in Handlers :
        /\ pc[h] = "set_store"
        /\ \A g \in Handlers \ {h} : pc[g] = "creds_call"

\* C16: a credentials request calls role.Credentials() once, and not at all
\* for an alias the RoleSet does not know; when the call fails the response
\* is one 500 error body, with nothing written after it.
C16_NoRetry ==
    /\ \A h \in Handlers :
          req[h].calls = IF pc[h] = "creds_call" THEN 1 ELSE 0
    /\ out.req.path = "creds" =>
          /\ out.req.calls = IF RoleErr(out.req.alias) THEN 0 ELSE 1
          /\ out.req.err =>
                /\ out.w.status = StatusInternalServerError
                /\ out.w.headerCalls = 1
                /\ out.w.body = <<[json |-> [error |-> "failed to assume role"]]>>

\* C16 witness: a credentials request whose one Credentials() call failed
\* was answered with the single error body.
C16_Witness ==
    /\ out.req.path = "creds" /\ out.req.err /\ out.req.calls = 1
    /\ out.w.body = <<[json |-> [error |-> "failed to assume role"]]>>

\* C17: every response consists of exactly one body and one status: no
\* handler writes anything after an error response.
C17_OneBodyOneStatus ==
    Responded =>
        /\ Len(out.w.body) = 1
        /\ out.w.headerCalls = 1
        /\ out.w.wroteHeader

\* C17 witness: the 404 of show role is a single error body with its status
\* written once.
C17_Witness ==
    /\ out.req.path = "show" /\ out.w.status = StatusNotFound
    /\ out.w.headerCalls = 1
    /\ out.w.body = <<[json |-> [error |-> "unknown role"]]>>

\* C18: with the empty string no alias of the RoleSet, an activation request
\* whose body decodes to the empty alias is answered 400 in a step that
\* leaves the active role as it was, and no word of the empty string is ever
\* stored into fc.instanceRole.
C18_EmptyAliasRejected ==
    [][empty \notin RoleAliases =>
          /\ \A h \in Handlers, word \in Words :
                rolesSetActive(h, empty, word) =>
                    /\ out'.req.alias = empty /\ out'.req.parsed
                    /\ out'.w.status = StatusBadRequest
                    /\ UNCHANGED <<instanceRole, lin>>
          /\ started' = "serving" =>
                /\ instanceRole'.ptr # empty /\ instanceRole'.len # 0
                /\ lin'.alias # empty]_vars

\* C18 witness: the empty alias was refused with 400 while the alias of the
\* last activation is still the active role.
C18_Witness ==
    /\ IsActivation /\ out.req.parsed /\ out.req.alias = empty
    /\ out.w.status = StatusBadRequest
    /\ lin.by \in Handlers
    /\ instanceRole = StringHeader(lin.alias)

\* C19: every activation request with a valid alias responds 200, and once
\* all of them have returned the active role is the alias of the one whose
\* assignment was completed last.
C19_ConcurrentActivations ==
    /\ (IsActivation /\ out.req.parsed /\ ~RoleErr(out.req.alias)) =>
          out.w.status = StatusOK
    /\ ((\A h \in Handlers : pc[h] = "idle") /\ lin.by \in Handlers) =>
          GoString(instanceRole) = lin.alias

\* C15: a Credentials() call on a Role without usable cached credentials
\* starts exactly one external assume-role call, whose success fills the
\* cache; a call made while the Role's cached credentials are unexpired
\* starts no external call and returns the cached values. So two calls on
\* the same Role before expiry make one external call.
C15_CachedCredentials ==
    [][\A h \in Handlers, alias \in RoleAliases :
          /\ (cache[alias] # 0 /\ mockProfileCredsCached(h, alias)) =>
                /\ UNCHANGED <<cache, fetches>>
                /\ pc'[h] = "idle"
                /\ out'.req.alias = alias /\ out'.req.calls = 1 /\ out'.req.fetch = 0
                /\ out'.w.status = StatusOK
                /\ out'.w.body =
                      <<[json |-> CredsDocument(FetchedCredentials(alias, cache[alias]))]>>
          /\ (cache[alias] = 0 /\ mockProfileCredsCached(h, alias)) =>
                /\ fetches' = [fetches EXCEPT ![alias] = @ + 1]
                /\ UNCHANGED cache
          /\ (req[h].alias = alias /\ assumeRoleReturn(h, FALSE)) =>
                /\ cache'[alias] = req[h].fetch
                /\ UNCHANGED fetches
                /\ out'.w.body =
                      <<[json |-> CredsDocument(FetchedCredentials(alias, req[h].fetch))]>>]_vars

\* Two credentials requests for dev were served, the first fetched and the
\* second was answered from the cache: one external call in all.
C15_Witness ==
    /\ served = 2
    /\ out.req.path = "creds" /\ out.req.alias = dev
    /\ out.req.calls = 1 /\ out.req.fetch = 0
    /\ out.w.status = StatusOK
    /\ out.w.body = <<[json |-> CredsDocument(FetchedCredentials(dev, 1))]>>
    /\ cache[dev] = 1
    /\ fetches[dev] = 1

====
